---- MODULE Spec2Model ----
(***************************************************************************)
(* Model of the flashcard note store (src/database.py): the Tag and Note   *)
(* value types, the three SQLite tables notes / taglets / note_tags with   *)
(* their AUTOINCREMENT counters, the scoped connection manager, and the    *)
(* public operations of class Database.                                    *)
(***************************************************************************)
EXTENDS Integers, Sequences, FiniteSets, TLC

\* ------------------------------------------------------------------------
\* Bounds of the model
\* ------------------------------------------------------------------------
MaxNoteId == 2
MaxTagletId == 2
MaxNoteTagsId == 2
MaxObjects == 3

Fronts == {"", "f1"}
Backs == {"b1"}
TagletNames == {"A", "B"}

\* ------------------------------------------------------------------------
\* Python values held by a Tag: a str, or a tuple of str (a row of a
\* cursor.fetchall(), or the names tuple produced by zip(*result)).
\* ------------------------------------------------------------------------
Str(s) == <<"str", s>>
Tuple(seq) == <<"tuple">> \o seq

\* Tag.__init__: the set of the positional arguments
Tag(taglets) == taglets

\* Tag.__sub__
TagSub(self, other) == self \ other

\* Tag.__bool__
TagBool(self) == self # {}

\* ------------------------------------------------------------------------
\* Tag objects with identity.  h is the heap of the Tag objects created so
\* far: h[ref] is the taglets set of the object ref.  Each method returns
\* the heap it leaves and the reference it returns.
\* ------------------------------------------------------------------------
\* Tag.__init__ as an allocation: a new object holding set(taglets)
Tag_init(h, taglets) == [heap |-> Append(h, taglets), ret |-> Len(h) + 1]

\* Tag.__sub__: new_tag = Tag(); new_tag.taglets = self.taglets - other.taglets
Tag_sub(h, self, other) == Tag_init(h, h[self] \ h[other])

\* Tag.__add__: new_tag = self; new_tag.taglets.update(other.taglets)
Tag_add(h, self, other) ==
    LET new_tag == self
    IN [heap |-> [h EXCEPT ![new_tag] = @ \cup h[other]], ret |-> new_tag]

\* Tag.__iadd__: self.taglets.update(other.taglets); return self
Tag_iadd(h, self, other) ==
    [heap |-> [h EXCEPT ![self] = @ \cup h[other]], ret |-> self]

\* Tag.__isub__: self.taglets = self.taglets - other.taglets; return self
Tag_isub(h, self, other) ==
    [heap |-> [h EXCEPT ![self] = @ \ h[other]], ret |-> self]

\* Note.__init__ ; note_id = 0 until the caller assigns one
Note(front_side, back_side, taglets) ==
    [present |-> TRUE, front_side |-> front_side, back_side |-> back_side,
     tag |-> Tag(taglets), note_id |-> 0]

\* Python None where a Note is expected
None == [present |-> FALSE, front_side |-> "", back_side |-> "",
         tag |-> {}, note_id |-> 0]

\* Note.__eq__
NoteEq(self, other) ==
    IF self.tag # other.tag THEN FALSE
    ELSE (self.front_side = other.front_side) /\ (self.back_side = other.back_side)

\* The notes a caller constructs: str fields and str taglets
StrTags == {{Str(n) : n \in S} : S \in SUBSET TagletNames}
InputNotes == {Note(f, b, t) : f \in Fronts, b \in Backs, t \in StrTags}

\* Iteration orders of a Python set of str (hash order, unspecified)
Orders == {o \in [1..Cardinality(TagletNames) -> TagletNames] :
              \A i, j \in DOMAIN o : i # j => o[i] # o[j]}

\* for taglet in tag: the taglets of the set in the iteration order
Iterate(tag, order) == SelectSeq(order, LAMBDA n : Str(n) \in tag)

\* the orders that iterate tag differently: all of them for two taglets or
\* more, one for a set that has a single iteration
OrdersFor(tag) ==
    IF Cardinality(tag) < 2 THEN {CHOOSE o \in Orders : TRUE} ELSE Orders

\* ------------------------------------------------------------------------
\* The database file: three tables and sqlite_sequence (AUTOINCREMENT)
\* ------------------------------------------------------------------------
EmptyDb ==
    [notes |-> {}, taglets |-> {}, note_tags |-> {},
     sqlite_sequence |-> [notes |-> 0, taglets |-> 0, note_tags |-> 0]]

\* outcome of a statement or of a handler body on a connection
Ok(d, v) == [db |-> d, err |-> "none", ret |-> v]
Raise(d, e) == [db |-> d, err |-> e, ret |-> 0]
\* Variant of __exit__ that commits on every exit path
DatabaseContextManager_exit_commit(committed, r) == r

\* DatabaseContextManager.__exit__: rollback to the committed file when the
\* body raised, commit the body's writes otherwise; the exception propagates
DatabaseContextManager_exit(committed, r) ==
    IF r.err # "none" THEN [r EXCEPT !.db = committed] ELSE r
\* Variant of InsertNotes for a notes table declared without UNIQUE
InsertNotes_not_unique(d, front_side, back_side) ==
    LET id == d.sqlite_sequence.notes + 1
    IN Ok([d EXCEPT !.notes = @ \cup {[note_id |-> id,
                                       front_side |-> front_side,
                                       back_side |-> back_side]},
                    !.sqlite_sequence.notes = id], id)

\* INSERT INTO notes (front_side, back_side): UNIQUE(front_side), note_id
\* AUTOINCREMENT
InsertNotes(d, front_side, back_side) ==
    IF \E r \in d.notes : r.front_side = front_side
    THEN Raise(d, "IntegrityError")
    ELSE LET id == d.sqlite_sequence.notes + 1
         IN Ok([d EXCEPT !.notes = @ \cup {[note_id |-> id,
                                            front_side |-> front_side,
                                            back_side |-> back_side]},
                         !.sqlite_sequence.notes = id], id)

\* INSERT INTO taglets (taglet_name): UNIQUE(taglet_name)
InsertTaglets(d, taglet_name) ==
    IF \E r \in d.taglets : r.taglet_name = taglet_name
    THEN Raise(d, "IntegrityError")
    ELSE LET id == d.sqlite_sequence.taglets + 1
         IN Ok([d EXCEPT !.taglets = @ \cup {[taglet_id |-> id,
                                              taglet_name |-> taglet_name]},
                         !.sqlite_sequence.taglets = id], id)

\* SELECT taglet_id FROM taglets WHERE taglet_name = ? ; fetchone()
\* (0 stands for the None of an empty result)
SelectTagletId(d, taglet_name) ==
    IF \E r \in d.taglets : r.taglet_name = taglet_name
    THEN (CHOOSE r \in d.taglets : r.taglet_name = taglet_name).taglet_id
    ELSE 0

\* INSERT INTO note_tags (note_id, taglet_id): both foreign keys are
\* enforced (PRAGMA foreign_keys = ON on every connection)
InsertNoteTags(d, note_id, taglet_id) ==
    IF \/ ~ \E r \in d.notes : r.note_id = note_id
       \/ ~ \E r \in d.taglets : r.taglet_id = taglet_id
    THEN Raise(d, "IntegrityError")
    ELSE LET id == d.sqlite_sequence.note_tags + 1
         IN Ok([d EXCEPT !.note_tags = @ \cup {[note_tags_id |-> id,
                                                note_id |-> note_id,
                                                taglet_id |-> taglet_id]},
                         !.sqlite_sequence.note_tags = id], id)

\* SELECT taglets.taglet_id, taglets.taglet_name FROM taglets INNER JOIN
\* note_tags ... WHERE note_tags.note_id = ? : one row per association
JoinNoteTaglets(d, note_id) ==
    {<<nt.note_tags_id, t.taglet_id, t.taglet_name>> :
        <<nt, t>> \in {p \in d.note_tags \X d.taglets :
                          /\ p[1].note_id = note_id
                          /\ p[1].taglet_id = p[2].taglet_id}}

\* the taglet names of the joined rows, as a list drops to a set
JoinedNames(d, note_id) == {row[3] : row \in JoinNoteTaglets(d, note_id)}

\* ------------------------------------------------------------------------
\* Database.insert_note
\* ------------------------------------------------------------------------
RECURSIVE insert_note_loop(_, _, _)
insert_note_loop(d, note_id, todo) ==
    IF todo = <<>> THEN Ok(d, note_id)
    ELSE LET taglet == Head(todo)
             ins == InsertTaglets(d, taglet)     \* IntegrityError is passed
             d1 == ins.db
             taglet_id == SelectTagletId(d1, taglet)
         IN IF taglet_id # 0
            THEN LET nt == InsertNoteTags(d1, note_id, taglet_id)
                 IN IF nt.err # "none" THEN Raise(nt.db, nt.err)
                    ELSE insert_note_loop(nt.db, note_id, Tail(todo))
            ELSE insert_note_loop(d1, note_id, Tail(todo))

insert_note(d, note, order) ==
    LET ins == InsertNotes(d, note.front_side, note.back_side)
        body == IF ins.err # "none" THEN Raise(ins.db, ins.err)
                ELSE insert_note_loop(ins.db, ins.ret, Iterate(note.tag, order))
    IN DatabaseContextManager_exit(d, body)
\* Variant of get_note_by_id that keeps the fetched rows as they are (the
\* comprehension of line 273 left out)
get_note_by_id_rows(d, note_id) ==
    IF note_id = 0 THEN None
    ELSE IF ~ \E r \in d.notes : r.note_id = note_id THEN None
    ELSE LET result == CHOOSE r \in d.notes : r.note_id = note_id
             taglets == {Tuple(<<n>>) : n \in JoinedNames(d, note_id)}
         IN [present |-> TRUE, front_side |-> result.front_side,
             back_side |-> result.back_side, tag |-> Tag(taglets),
             note_id |-> note_id]

\* ------------------------------------------------------------------------
\* Database.get_note_by_id (with or without a connection: the nested call
\* runs the same statements on the connection it opened)
\* ------------------------------------------------------------------------
get_note_by_id(d, note_id) ==
    IF note_id = 0 THEN None
    ELSE IF ~ \E r \in d.notes : r.note_id = note_id THEN None
    ELSE LET result == CHOOSE r \in d.notes : r.note_id = note_id
             taglets == {Str(n) : n \in JoinedNames(d, note_id)}
         IN [present |-> TRUE, front_side |-> result.front_side,
             back_side |-> result.back_side,
             tag |-> IF taglets # {} THEN Tag(taglets) ELSE Tag({}),
             note_id |-> note_id]

\* ------------------------------------------------------------------------
\* Database.get_note_by_fields
\* ------------------------------------------------------------------------
get_note_by_fields(d, front_side) ==
    IF front_side = "" THEN [err |-> "none", ret |-> None]
    ELSE IF ~ \E r \in d.notes : r.front_side = front_side
    THEN [err |-> "TypeError", ret |-> None]   \* unpacking fetchone() = None
    ELSE LET row == CHOOSE r \in d.notes : r.front_side = front_side
             new_taglets == {Tuple(<<n>>) : n \in JoinedNames(d, row.note_id)}
         IN [err |-> "none",
             ret |-> [present |-> TRUE, front_side |-> row.front_side,
                      back_side |-> row.back_side, tag |-> Tag(new_taglets),
                      note_id |-> row.note_id]]

\* ------------------------------------------------------------------------
\* Database.delete_note_by_id
\* ------------------------------------------------------------------------
\* DELETE FROM note_tags WHERE note_id = ?
DeleteNoteTagsOfNote(d, note_id) ==
    Ok([d EXCEPT !.note_tags = {nt \in @ : nt.note_id # note_id}], 0)

\* DELETE FROM notes WHERE note_id = ? ; note_tags.note_id is declared
\* ON DELETE CASCADE and foreign keys are on for every connection
DeleteNotes(d, note_id) ==
    Ok([d EXCEPT !.notes = {r \in @ : r.note_id # note_id},
                 !.note_tags = {nt \in @ : nt.note_id # note_id}], 0)
\* Variant of delete_note_by_id that removes the notes row only, on a
\* connection that does not enforce the foreign key
delete_note_by_id_row_only(d, note_id) ==
    Ok([d EXCEPT !.notes = {r \in @ : r.note_id # note_id}],
       get_note_by_id(d, note_id))

\* Variant of delete_note_by_id that reads a field of original_note for its
\* message and so raises on the None of a missing note
delete_note_by_id_strict(d, note_id) ==
    LET original_note == get_note_by_id(d, note_id)
        s1 == DeleteNoteTagsOfNote(d, note_id)
        s2 == DeleteNotes(s1.db, note_id)
    IN DatabaseContextManager_exit(d,
           IF original_note.present THEN Ok(s2.db, original_note)
           ELSE Raise(s2.db, "AttributeError"))

\* ret carries original_note, the note the handler fetched (and prints)
delete_note_by_id(d, note_id) ==
    LET original_note == get_note_by_id(d, note_id)
        s1 == DeleteNoteTagsOfNote(d, note_id)
        s2 == DeleteNotes(s1.db, note_id)
    IN DatabaseContextManager_exit(d, Ok(s2.db, original_note))
\* Variant of the NOT EXISTS predicate that matches every taglet
Unused_all(d) == d.taglets

\* ------------------------------------------------------------------------
\* Database.delete_unused_taglets
\* ------------------------------------------------------------------------
\* ... WHERE NOT EXISTS (SELECT 1 FROM note_tags WHERE taglet_id matches)
Unused(d) ==
    {t \in d.taglets : ~ \E nt \in d.note_tags : nt.taglet_id = t.taglet_id}

\* the rows of a taglets result in rowid order, as fetchall() lists them
RECURSIVE RowsInOrder(_)
RowsInOrder(rows) ==
    IF rows = {} THEN <<>>
    ELSE LET first == CHOOSE r \in rows :
                          \A q \in rows : r.taglet_id <= q.taglet_id
         IN <<first>> \o RowsInOrder(rows \ {first})

\* taglet_ids, deleted_taglets = zip(*result): the second column as a tuple
ZipNames(rowseq) == [i \in 1..Len(rowseq) |-> rowseq[i].taglet_name]
\* Variant of delete_unused_taglets whose DELETE statement is left out
delete_unused_taglets_select_only(d) ==
    LET result == RowsInOrder(Unused(d))
        body == IF result = <<>>
                THEN Raise(d, "ValueError")
                ELSE Ok(d, Tag({Tuple(ZipNames(result))}))
    IN DatabaseContextManager_exit(d, body)


delete_unused_taglets(d) ==
    LET result == RowsInOrder(Unused(d))
        d1 == [d EXCEPT !.taglets = @ \ Unused(d)]
        body == IF result = <<>>
                THEN Raise(d1, "ValueError")      \* zip() of no rows unpacks 0
                ELSE LET deleted_taglets == ZipNames(result)
                     IN Ok(d1, Tag({Tuple(deleted_taglets)}))
    IN DatabaseContextManager_exit(d, body)

\* ------------------------------------------------------------------------
\* Database.add_tag_to_note
\* ------------------------------------------------------------------------
\* INSERT OR IGNORE INTO taglets (taglet_name)
InsertOrIgnoreTaglets(d, taglet_name) ==
    LET ins == InsertTaglets(d, taglet_name)
    IN IF ins.err # "none" THEN Ok(d, 0) ELSE ins

\* the for loop of lines 405-426; locked: another connection of the same
\* call chain holds the file's write lock, so a write statement on this
\* connection waits out the busy timeout and raises OperationalError
RECURSIVE add_tag_loop(_, _, _, _, _)
add_tag_loop(d, note_id, taglet_names, todo, locked) ==
    IF todo = <<>> THEN Ok(d, 0)
    ELSE LET taglet == Head(todo)
         IN IF taglet \in taglet_names
            THEN add_tag_loop(d, note_id, taglet_names, Tail(todo), locked)
            ELSE IF locked THEN Raise(d, "OperationalError")
            ELSE LET d1 == InsertOrIgnoreTaglets(d, taglet).db
                     taglet_id == SelectTagletId(d1, taglet)
                 IN IF taglet_id # 0
                    THEN LET nt == InsertNoteTags(d1, note_id, taglet_id)
                         IN IF nt.err # "none" THEN Raise(nt.db, nt.err)
                            ELSE add_tag_loop(nt.db, note_id, taglet_names,
                                              Tail(todo), locked)
                    ELSE add_tag_loop(d1, note_id, taglet_names,
                                      Tail(todo), locked)

\* Variant of add_tag_statements whose loop compares each taglet with no
\* name (the test of line 406 always passes)
add_tag_statements_no_test(d, note_id, add_tag, locked, order) ==
    LET result == JoinNoteTaglets(d, note_id)
    IN IF result = {}
       THEN Raise(d, "ValueError")
       ELSE add_tag_loop(d, note_id, {}, Iterate(add_tag, order), locked)

\* lines 389-431: the statements run on an open connection
add_tag_statements(d, note_id, add_tag, locked, order) ==
    LET result == JoinNoteTaglets(d, note_id)
    IN IF result = {}
       THEN Raise(d, "ValueError")          \* zip() of no rows unpacks 0
       ELSE add_tag_loop(d, note_id, {row[3] : row \in result},
                         Iterate(add_tag, order), locked)

\* connection = FALSE: the call opens its own scoped connection, runs the
\* statements through the nested call, commits and closes; control then
\* falls through to connection.cursor() on the closed connection
add_tag_to_note(d, note_id, add_tag, connection, locked, order) ==
    IF ~ connection
    THEN LET inner == DatabaseContextManager_exit(d,
                          add_tag_statements(d, note_id, add_tag, locked, order))
         IN IF inner.err # "none" THEN inner
            ELSE Raise(inner.db, "ProgrammingError")
    ELSE add_tag_statements(d, note_id, add_tag, locked, order)

\* ------------------------------------------------------------------------
\* Database.remove_tag_from_note
\* ------------------------------------------------------------------------
\* DELETE FROM note_tags WHERE note_id = ? AND taglet_id IN (SELECT ... name)
DeleteNoteTag(d, note_id, taglet_name) ==
    Ok([d EXCEPT !.note_tags =
            {nt \in @ : ~ (/\ nt.note_id = note_id
                           /\ \E t \in d.taglets :
                                  /\ t.taglet_name = taglet_name
                                  /\ t.taglet_id = nt.taglet_id)}], 0)

RECURSIVE remove_tag_loop(_, _, _, _)
remove_tag_loop(d, note_id, todo, locked) ==
    IF todo = <<>> THEN Ok(d, 0)
    ELSE IF locked THEN Raise(d, "OperationalError")
    ELSE remove_tag_loop(DeleteNoteTag(d, note_id, Head(todo)).db, note_id,
                         Tail(todo), locked)

remove_tag_from_note(d, note_id, del_tag, locked, order) ==
    LET body == IF TagBool(del_tag)
                THEN remove_tag_loop(d, note_id, Iterate(del_tag, order), locked)
                ELSE Ok(d, 0)
    IN DatabaseContextManager_exit(d, body)

\* ------------------------------------------------------------------------
\* Database.update_note
\* ------------------------------------------------------------------------
\* UPDATE notes SET front_side = ?, back_side = ? WHERE note_id = ?
UpdateNotes(d, note_id, front_side, back_side) ==
    IF ~ \E r \in d.notes : r.note_id = note_id THEN Ok(d, 0)
    ELSE IF \E r \in d.notes : r.note_id # note_id /\ r.front_side = front_side
    THEN Raise(d, "IntegrityError")
    ELSE Ok([d EXCEPT !.notes =
                {r \in @ : r.note_id # note_id}
                \cup {[note_id |-> note_id, front_side |-> front_side,
                       back_side |-> back_side]}], 0)
\* Variant of update_note that returns early when the note is not found
update_note_silent(d, original_note_id, replacement, order) ==
    LET original_note == get_note_by_id(d, original_note_id)
        upd == UpdateNotes(d, original_note_id, replacement.front_side,
                           replacement.back_side)
    IN IF upd.err # "none" THEN DatabaseContextManager_exit(d, upd)
       ELSE IF ~ original_note.present
       THEN DatabaseContextManager_exit(d, Ok(upd.db, 0))
       ELSE LET add == add_tag_to_note(d, original_note_id,
                                       TagSub(replacement.tag, original_note.tag),
                                       FALSE, TRUE, order)
            IN DatabaseContextManager_exit(add.db,
                   IF add.err # "none" THEN Raise(upd.db, add.err) ELSE upd)

\* The handler's connection holds the write lock from its UPDATE on, so the
\* connections opened by add_tag_to_note and remove_tag_from_note read the
\* committed file d and are refused every write.  What they committed (co)
\* is the file the handler's own commit or rollback ends on.
update_note(d, original_note_id, replacement, order) ==
    LET original_note == get_note_by_id(d, original_note_id)
        upd == UpdateNotes(d, original_note_id, replacement.front_side,
                           replacement.back_side)
    IN IF upd.err # "none" THEN DatabaseContextManager_exit(d, upd)
       ELSE IF ~ original_note.present      \* original_note.tag of None
       THEN DatabaseContextManager_exit(d, Raise(upd.db, "AttributeError"))
       ELSE LET original_tag == original_note.tag
                add_tag == TagSub(replacement.tag, original_tag)
                add == add_tag_to_note(d, original_note_id, add_tag,
                                       FALSE, TRUE, order)
            IN IF add.err # "none"
               THEN DatabaseContextManager_exit(add.db, Raise(upd.db, add.err))
               ELSE LET del_tag == TagSub(original_tag, replacement.tag)
                        rem == remove_tag_from_note(add.db, original_note_id,
                                                    del_tag, TRUE, order)
                        mine == UpdateNotes(rem.db, original_note_id,
                                            replacement.front_side,
                                            replacement.back_side)
                    IN IF rem.err # "none"
                       THEN DatabaseContextManager_exit(rem.db,
                                                        Raise(mine.db, rem.err))
                       ELSE DatabaseContextManager_exit(rem.db, mine)

\* ------------------------------------------------------------------------
\* What a call does with connections: the sequence of its sqlite3.connect,
\* connection.cursor, commit, rollback and close calls.  Connections are
\* numbered in the order the call opens them.
\* ------------------------------------------------------------------------
Ev(kind, c) == <<kind, c>>

\* with self.DatabaseContextManager(...) as db: __enter__, the body's
\* events, __exit__ (err: the exception the body raised, "none" for none)
Scope(c, body, err) ==
    <<Ev("connect", c)>> \o body
        \o <<Ev(IF err = "none" THEN "commit" ELSE "rollback", c),
             Ev("close", c)>>

insert_note_log(d, note, order) ==
    Scope(1, <<Ev("cursor", 1)>>, insert_note(d, note, order).err)

\* connection = 0: called without one (c: the number its own would get)
get_note_by_id_log(note_id, connection, c) ==
    IF note_id = 0 THEN <<>>
    ELSE IF connection # 0 THEN <<Ev("cursor", connection)>>
    ELSE Scope(c, <<Ev("cursor", c)>>, "none")

get_note_by_fields_log(d, front_side) ==
    IF front_side = "" THEN <<>>
    ELSE Scope(1, <<Ev("cursor", 1)>>, get_note_by_fields(d, front_side).err)

delete_note_by_id_log(d, note_id) ==
    Scope(1, get_note_by_id_log(note_id, 0, 2) \o <<Ev("cursor", 1)>>,
          delete_note_by_id(d, note_id).err)

delete_unused_taglets_log(d) ==
    Scope(1, <<Ev("cursor", 1)>>, delete_unused_taglets(d).err)

\* called without a connection (c: the number of the one it opens): the
\* nested call's cursor inside the scope, then line 389 after the scope
add_tag_to_note_log(d, note_id, add_tag, locked, order, c) ==
    LET inner == DatabaseContextManager_exit(d,
                     add_tag_statements(d, note_id, add_tag, locked, order))
    IN Scope(c, <<Ev("cursor", c)>>, inner.err)
           \o (IF inner.err = "none" THEN <<Ev("cursor", c)>> ELSE <<>>)

remove_tag_from_note_log(d, note_id, del_tag, locked, order, c) ==
    Scope(c, <<Ev("cursor", c)>>,
          remove_tag_from_note(d, note_id, del_tag, locked, order).err)

update_note_log(d, original_note_id, replacement, order) ==
    LET original_note == get_note_by_id(d, original_note_id)
        upd == UpdateNotes(d, original_note_id, replacement.front_side,
                           replacement.back_side)
        add_tag == TagSub(replacement.tag, original_note.tag)
        add == add_tag_to_note(d, original_note_id, add_tag, FALSE, TRUE, order)
        del_tag == TagSub(original_note.tag, replacement.tag)
        calls == IF upd.err # "none" \/ ~ original_note.present THEN <<>>
                 ELSE add_tag_to_note_log(d, original_note_id, add_tag,
                                          TRUE, order, 2)
                      \o (IF add.err # "none" THEN <<>>
                          ELSE remove_tag_from_note_log(add.db, original_note_id,
                                                        del_tag, TRUE, order, 3))
    IN Scope(1, get_note_by_id_log(original_note_id, 1, 2)
                    \o <<Ev("cursor", 1)>> \o calls,
             update_note(d, original_note_id, replacement, order).err)

\* ------------------------------------------------------------------------
\* State, initial state and one action per public operation
\* ------------------------------------------------------------------------
\* db: the database file (no connection stays open between two operations);
\* last: what the caller of the last operation observed;
\* heap: the Tag objects of a caller computing with Tags; env: the caller's
\* variables a, b, c (a reference into heap, 0 while unbound)
\* gc, wr: a delete_unused_taglets call and an insert_note or add_tag_to_note
\* call running on two connections at once (position, what it holds, the
\* exception its last call ended with); lock: the connection holding the
\* write lock of the file
VARIABLES db, last, heap, env, gc, wr, lock

vars == <<db, last, heap, env, gc, wr, lock>>
storevars == <<db, last>>
tagvars == <<heap, env>>
gcvars == <<gc, wr, lock>>

GcIdle(err) == [pc |-> "idle", result |-> <<>>, deleted |-> {}, err |-> err]
WrIdle(err) ==
    [pc |-> "idle", op |-> "none", note_id |-> 0, taglet_names |-> {},
     todo |-> <<>>, res |-> Ok(EmptyDb, 0), err |-> err]

\* what the caller of the last operation observed: the operation, the id it
\* was given, the exception it raised ("none": it returned) and its value
Call(op, note_id, err, ret) ==
    [op |-> op, note_id |-> note_id, err |-> err, ret |-> ret]

\* the AUTOINCREMENT counters stay within the bounds of the model
WithinBounds(d) ==
    /\ d.sqlite_sequence.notes <= MaxNoteId
    /\ d.sqlite_sequence.taglets <= MaxTagletId
    /\ d.sqlite_sequence.note_tags <= MaxNoteTagsId

NoteIds == 0..MaxNoteId

\* Database.__init__: CREATE TABLE IF NOT EXISTS on a new file
Init ==
    /\ db = EmptyDb
    /\ last = Call("init", 0, "none", 0)
    /\ heap = <<>>
    /\ env = [a |-> 0, b |-> 0, c |-> 0]
    /\ gc = GcIdle("none")
    /\ wr = WrIdle("none")
    /\ lock = "none"

Insert ==
    \E note \in InputNotes :
      \E order \in OrdersFor(note.tag) :
        LET r == insert_note(db, note, order)
        IN /\ WithinBounds(r.db)
           /\ db' = r.db
           /\ last' = Call("insert", 0, r.err, r.ret)
           /\ UNCHANGED <<tagvars, gcvars>>

FetchByID ==
    \E note_id \in NoteIds :
        /\ db' = db
        /\ last' = Call("get_by_id", note_id, "none",
                        get_note_by_id(db, note_id))
        /\ UNCHANGED <<tagvars, gcvars>>

FetchByFront ==
    \E front_side \in Fronts :
        LET r == get_note_by_fields(db, front_side)
        IN /\ db' = db
           /\ last' = Call("get_by_fields", 0, r.err, r.ret)
           /\ UNCHANGED <<tagvars, gcvars>>

Delete ==
    \E note_id \in NoteIds :
        LET r == delete_note_by_id(db, note_id)
        IN /\ db' = r.db
           /\ last' = Call("delete", note_id, r.err, r.ret)
           /\ UNCHANGED <<tagvars, gcvars>>

CollectOrphanLabels ==
    LET r == delete_unused_taglets(db)
    IN /\ db' = r.db
       /\ last' = Call("delete_unused_taglets", 0, r.err, r.ret)
       /\ UNCHANGED <<tagvars, gcvars>>

Update ==
    \E note_id \in NoteIds, replacement \in InputNotes :
      \E order \in OrdersFor(replacement.tag \cup get_note_by_id(db, note_id).tag) :
        LET r == update_note(db, note_id, replacement, order)
        IN /\ WithinBounds(r.db)
           /\ db' = r.db
           /\ last' = Call("update", note_id, r.err, 0)
           /\ UNCHANGED <<tagvars, gcvars>>

AddLabels ==
    \E note_id \in NoteIds, add_tag \in StrTags :
      \E order \in OrdersFor(add_tag) :
        LET r == add_tag_to_note(db, note_id, add_tag, FALSE, FALSE, order)
        IN /\ WithinBounds(r.db)
           /\ db' = r.db
           /\ last' = Call("add_tag", note_id, r.err, 0)
           /\ UNCHANGED <<tagvars, gcvars>>

RemoveLabels ==
    \E note_id \in NoteIds, del_tag \in StrTags :
      \E order \in OrdersFor(del_tag) :
        LET r == remove_tag_from_note(db, note_id, del_tag, FALSE, order)
        IN /\ db' = r.db
           /\ last' = Call("remove_tag", note_id, r.err, 0)
           /\ UNCHANGED <<tagvars, gcvars>>

Next ==
    \/ Insert
    \/ FetchByID
    \/ FetchByFront
    \/ Delete
    \/ CollectOrphanLabels
    \/ Update
    \/ AddLabels
    \/ RemoveLabels

Spec == Init /\ [][Next]_vars

\* ------------------------------------------------------------------------
\* A caller computing with Tag objects, apart from the store
\* ------------------------------------------------------------------------
Names == {"a", "b", "c"}

\* a = Tag(*taglets) or b = Tag(*taglets)
TagNew ==
    \E v \in {"a", "b"}, taglets \in StrTags :
        /\ Len(heap) < MaxObjects
        /\ LET r == Tag_init(heap, taglets)
           IN /\ heap' = r.heap
              /\ env' = [env EXCEPT ![v] = r.ret]
        /\ UNCHANGED <<storevars, gcvars>>

\* c = x + y
TagAdd ==
    \E x, y \in Names :
        /\ env[x] # 0 /\ env[y] # 0
        /\ LET r == Tag_add(heap, env[x], env[y])
           IN /\ heap' = r.heap
              /\ env' = [env EXCEPT !.c = r.ret]
        /\ UNCHANGED <<storevars, gcvars>>

\* c = x - y
TagSubtract ==
    \E x, y \in Names :
        /\ env[x] # 0 /\ env[y] # 0
        /\ Len(heap) < MaxObjects
        /\ LET r == Tag_sub(heap, env[x], env[y])
           IN /\ heap' = r.heap
              /\ env' = [env EXCEPT !.c = r.ret]
        /\ UNCHANGED <<storevars, gcvars>>

\* x += y
TagIAdd ==
    \E x, y \in Names :
        /\ env[x] # 0 /\ env[y] # 0
        /\ LET r == Tag_iadd(heap, env[x], env[y])
           IN /\ heap' = r.heap
              /\ env' = [env EXCEPT ![x] = r.ret]
        /\ UNCHANGED <<storevars, gcvars>>

\* x -= y
TagISub ==
    \E x, y \in Names :
        /\ env[x] # 0 /\ env[y] # 0
        /\ LET r == Tag_isub(heap, env[x], env[y])
           IN /\ heap' = r.heap
              /\ env' = [env EXCEPT ![x] = r.ret]
        /\ UNCHANGED <<storevars, gcvars>>

NextTag ==
    \/ TagNew
    \/ TagAdd
    \/ TagSubtract
    \/ TagIAdd
    \/ TagISub

SpecTag == Init /\ [][NextTag]_vars

\* ------------------------------------------------------------------------
\* delete_unused_taglets interleaved, statement by statement, with an
\* insert_note or add_tag_to_note call on another connection.  A SELECT
\* runs outside a transaction and reads the committed file; the first
\* INSERT or DELETE of a call begins its transaction and takes the write
\* lock, held until commit or rollback; a write that finds the lock held
\* waits, or raises OperationalError when the busy timeout expires.
\* ------------------------------------------------------------------------
\* a note is deleted while no other call is running (leaves orphans)
SeqDelete ==
    /\ gc.pc = "idle" /\ wr.pc = "idle" /\ lock = "none"
    /\ Delete

\* lines 320-327: the SELECT of the unused taglets and fetchall()
GcSelect ==
    /\ gc.pc = "idle"
    /\ gc' = [pc |-> "selected", result |-> RowsInOrder(Unused(db)),
              deleted |-> {}, err |-> "none"]
    /\ UNCHANGED <<storevars, tagvars, wr, lock>>

\* lines 330-336: the DELETE, on the file as committed at this moment
GcDelete ==
    /\ gc.pc = "selected"
    /\ lock = "none"
    /\ gc' = [gc EXCEPT !.pc = "deleted", !.deleted = Unused(db)]
    /\ lock' = "gc"
    /\ UNCHANGED <<storevars, tagvars, wr>>

\* the DELETE finds the file locked until the busy timeout
GcBusy ==
    /\ gc.pc = "selected"
    /\ lock = "wr"
    /\ gc' = GcIdle("OperationalError")
    /\ UNCHANGED <<storevars, tagvars, wr, lock>>

\* lines 340-344 and __exit__: zip(*result) of no rows raises inside the
\* with block and the DELETE is rolled back; otherwise it is committed
GcCommit ==
    /\ gc.pc = "deleted"
    /\ IF gc.result = <<>>
       THEN /\ db' = db
            /\ gc' = GcIdle("ValueError")
       ELSE /\ db' = [db EXCEPT !.taglets = @ \ gc.deleted]
            /\ gc' = GcIdle("none")
    /\ lock' = "none"
    /\ UNCHANGED <<last, tagvars, wr>>

\* insert_note: its first INSERT takes the write lock and the statements of
\* lines 155-187 run in the transaction
WrInsert ==
    /\ wr.pc = "idle"
    /\ lock = "none"
    /\ \E note \in InputNotes :
         \E order \in OrdersFor(note.tag) :
           LET r == insert_note(db, note, order)
           IN /\ WithinBounds(r.db)
              /\ wr' = [WrIdle("none") EXCEPT !.pc = "writing",
                                              !.op = "insert", !.res = r]
    /\ lock' = "wr"
    /\ UNCHANGED <<storevars, tagvars, gc>>

\* the first INSERT of insert_note finds the file locked until the timeout
WrInsertBusy ==
    /\ wr.pc = "idle"
    /\ lock = "gc"
    /\ wr' = WrIdle("OperationalError")
    /\ UNCHANGED <<storevars, tagvars, gc, lock>>

\* add_tag_to_note, lines 391-401: the SELECT of the note's taglets
WrAddSelect ==
    /\ wr.pc = "idle"
    /\ \E note_id \in NoteIds, add_tag \in StrTags :
         \E order \in OrdersFor(add_tag) :
           LET result == JoinNoteTaglets(db, note_id)
           IN IF result = {}
              THEN wr' = WrIdle("ValueError")
              ELSE wr' = [WrIdle("none") EXCEPT
                             !.pc = "selected", !.op = "add_tag",
                             !.note_id = note_id,
                             !.taglet_names = {row[3] : row \in result},
                             !.todo = Iterate(add_tag, order)]
    /\ UNCHANGED <<storevars, tagvars, gc, lock>>

\* the loop of lines 405-426 has a statement to run for some taglet
NeedsWrite(w) == \E i \in 1..Len(w.todo) : w.todo[i] \notin w.taglet_names

\* add_tag_to_note, lines 405-426, with a taglet to insert: the first
\* INSERT takes the write lock; the scope will commit and line 389 raise
WrAddWrite ==
    /\ wr.pc = "selected"
    /\ NeedsWrite(wr)
    /\ lock = "none"
    /\ LET inner == DatabaseContextManager_exit(db,
                        add_tag_loop(db, wr.note_id, wr.taglet_names,
                                     wr.todo, FALSE))
           r == IF inner.err # "none" THEN inner
                ELSE Raise(inner.db, "ProgrammingError")
       IN /\ WithinBounds(r.db)
          /\ wr' = [wr EXCEPT !.pc = "writing", !.res = r]
    /\ lock' = "wr"
    /\ UNCHANGED <<storevars, tagvars, gc>>

\* add_tag_to_note with nothing to insert: no write, line 389 raises
WrAddNothing ==
    /\ wr.pc = "selected"
    /\ ~ NeedsWrite(wr)
    /\ wr' = WrIdle("ProgrammingError")
    /\ UNCHANGED <<storevars, tagvars, gc, lock>>

\* the first INSERT of add_tag_to_note finds the file locked
WrAddBusy ==
    /\ wr.pc = "selected"
    /\ NeedsWrite(wr)
    /\ lock = "gc"
    /\ wr' = WrIdle("OperationalError")
    /\ UNCHANGED <<storevars, tagvars, gc, lock>>

\* __exit__ of the writing call: commit (or rollback) and release the lock
WrCommit ==
    /\ wr.pc = "writing"
    /\ db' = wr.res.db
    /\ wr' = WrIdle(wr.res.err)
    /\ lock' = "none"
    /\ UNCHANGED <<last, tagvars, gc>>

NextGc ==
    \/ SeqDelete
    \/ GcSelect
    \/ GcDelete
    \/ GcBusy
    \/ GcCommit
    \/ WrInsert
    \/ WrInsertBusy
    \/ WrAddSelect
    \/ WrAddWrite
    \/ WrAddNothing
    \/ WrAddBusy
    \/ WrCommit

SpecGc == Init /\ [][NextGc]_vars

\* ------------------------------------------------------------------------
\* Properties
\* ------------------------------------------------------------------------
\* the persisted notes, labels and associations
Persisted(d) == <<d.notes, d.taglets, d.note_tags>>

IsPersisted(d, note_id) == \E r \in d.notes : r.note_id = note_id

FrontPersisted(d, front_side) == \E r \in d.notes : r.front_side = front_side

\* C1: for every persisted note id and every replacement whose front is
\* non-empty and not the front of another persisted note, Update(id,
\* replacement) completes without error and FetchByID(id) then returns the
\* replacement's front, back and labels.
C1_UpdateThenFetch ==
    \A note_id \in NoteIds, replacement \in InputNotes, order \in Orders :
        (/\ IsPersisted(db, note_id)
         /\ replacement.front_side # ""
         /\ ~ \E r \in db.notes : /\ r.note_id # note_id
                                  /\ r.front_side = replacement.front_side)
        => LET r == update_note(db, note_id, replacement, order)
               n == get_note_by_id(r.db, note_id)
           IN /\ r.err = "none"
              /\ n.front_side = replacement.front_side
              /\ n.back_side = replacement.back_side
              /\ n.tag = replacement.tag

\* C2: round trip by id: when Insert(note) of a note whose front is not yet
\* persisted succeeds with id i, FetchByID(i) returns a note with the
\* inserted front, back and labels (labels as a set of label strings).
C2_RoundTripById ==
    \A note \in InputNotes, order \in Orders :
        LET r == insert_note(db, note, order)
        IN (~ FrontPersisted(db, note.front_side) /\ r.err = "none")
           => LET n == get_note_by_id(r.db, r.ret)
              IN /\ n.present
                 /\ n.front_side = note.front_side
                 /\ n.back_side = note.back_side
                 /\ n.tag = note.tag
                 /\ NoteEq(n, note)

\* an Insert has just returned the id of a note that is fetched with two labels
C2_Witness ==
    /\ last.op = "insert"
    /\ last.err = "none"
    /\ Cardinality(get_note_by_id(db, last.ret).tag) = 2

\* C3: round trip by front: when Insert(note) of a note whose (non-empty)
\* front is not yet persisted succeeds, FetchByFront(note.front) returns a
\* note with the inserted front, back and the same set of label strings.
C3_RoundTripByFront ==
    \A note \in InputNotes, order \in Orders :
        LET r == insert_note(db, note, order)
        IN (/\ note.front_side # ""
            /\ ~ FrontPersisted(db, note.front_side)
            /\ r.err = "none")
           => LET f == get_note_by_fields(r.db, note.front_side)
              IN /\ f.err = "none"
                 /\ f.ret.present
                 /\ f.ret.front_side = note.front_side
                 /\ f.ret.back_side = note.back_side
                 /\ f.ret.tag = note.tag

\* C4: Insert of a note whose front is the front of a persisted note fails
\* with an error and leaves the persisted notes, labels and associations
\* exactly as they were.
C4_DuplicateFrontRejected ==
    \A note \in InputNotes, order \in Orders :
        FrontPersisted(db, note.front_side)
        => LET r == insert_note(db, note, order)
           IN r.err # "none" /\ Persisted(r.db) = Persisted(db)

\* an Insert has just been refused while a note and a label are persisted
C4_Witness ==
    /\ last.op = "insert"
    /\ last.err = "IntegrityError"
    /\ db.notes # {}
    /\ db.taglets # {}

\* C5: whenever Update returns an error, the persisted notes, labels and
\* associations are exactly those before the call.
C5_FailedUpdateChangesNothing ==
    \A note_id \in NoteIds, replacement \in InputNotes, order \in Orders :
        LET r == update_note(db, note_id, replacement, order)
        IN r.err # "none" => Persisted(r.db) = Persisted(db)

\* an Update of a persisted note has just failed in its add-labels step
C5_Witness ==
    /\ last.op = "update"
    /\ last.err \in {"OperationalError", "ProgrammingError", "ValueError"}
    /\ IsPersisted(db, last.note_id)

\* C6: Update on an id for which no note is persisted is aborted with an
\* error and leaves the persisted notes, labels and associations unchanged.
C6_UpdateOfMissingNoteAborts ==
    \A note_id \in NoteIds, replacement \in InputNotes, order \in Orders :
        ~ IsPersisted(db, note_id)
        => LET r == update_note(db, note_id, replacement, order)
           IN r.err # "none" /\ Persisted(r.db) = Persisted(db)

\* an Update of an id that was assigned once and is deleted has just aborted
C6_Witness ==
    /\ last.op = "update"
    /\ last.err = "AttributeError"
    /\ last.note_id \in 1..db.sqlite_sequence.notes
    /\ ~ IsPersisted(db, last.note_id)

\* C7: after Delete(id) on a persisted note no association references id,
\* FetchByID(id) returns absent, and the rows and associations of every
\* other note are unchanged.
C7_DeleteCascades ==
    \A id \in NoteIds :
        IsPersisted(db, id)
        => LET r == delete_note_by_id(db, id)
           IN /\ r.err = "none"
              /\ ~ \E nt \in r.db.note_tags : nt.note_id = id
              /\ ~ get_note_by_id(r.db, id).present
              /\ {n \in r.db.notes : n.note_id # id}
                     = {n \in db.notes : n.note_id # id}
              /\ {nt \in r.db.note_tags : nt.note_id # id}
                     = {nt \in db.note_tags : nt.note_id # id}

\* a note with labels has just been deleted while another note keeps its own
C7_Witness ==
    /\ last.op = "delete"
    /\ last.err = "none"
    /\ last.ret.present
    /\ last.ret.tag # {}
    /\ db.note_tags # {}

\* C8: after CollectOrphanLabels every label that had no association before
\* the call is no longer persisted, and every label that had one is still
\* persisted with its associations unchanged.
C8_OrphansCollected ==
    LET r == delete_unused_taglets(db)
    IN /\ \A t \in db.taglets :
             IF \E nt \in db.note_tags : nt.taglet_id = t.taglet_id
             THEN t \in r.db.taglets
             ELSE ~ \E u \in r.db.taglets : u.taglet_name = t.taglet_name
       /\ r.db.note_tags = db.note_tags

\* a collection has just removed a label and left a referenced one
C8_Witness ==
    /\ last.op = "delete_unused_taglets"
    /\ last.err = "none"
    /\ db.taglets # {}
    /\ db.note_tags # {}

\* C9: CollectOrphanLabels completes without error in every reachable state
\* and its result is exactly the set of the label names it deleted, each as
\* a label string.
C9_CollectReturnsDeletedNames ==
    LET r == delete_unused_taglets(db)
    IN /\ r.err = "none"
       /\ r.ret = {Str(t.taglet_name) : t \in db.taglets \ r.db.taglets}

\* C10: referential integrity: every association row references a persisted
\* note and a persisted label.
C10_ReferentialIntegrity ==
    \A nt \in db.note_tags :
        /\ \E r \in db.notes : r.note_id = nt.note_id
        /\ \E t \in db.taglets : t.taglet_id = nt.taglet_id

\* associations remain after a note was deleted and its orphans collected
C10_Witness ==
    /\ last.op = "delete_unused_taglets"
    /\ last.err = "none"
    /\ db.note_tags # {}
    /\ db.sqlite_sequence.notes > Cardinality(db.notes)

\* C11: front uniqueness: no two persisted notes have the same front, and an
\* Update whose replacement front is the front of a different persisted note
\* does not produce two notes with equal front.
C11_FrontUnique ==
    /\ \A r1, r2 \in db.notes : r1.front_side = r2.front_side => r1 = r2
    /\ \A note_id \in NoteIds, replacement \in InputNotes, order \in Orders :
           (\E n \in db.notes : /\ n.note_id # note_id
                                /\ n.front_side = replacement.front_side)
           => LET r == update_note(db, note_id, replacement, order)
              IN \A r1, r2 \in r.db.notes :
                     r1.front_side = r2.front_side => r1 = r2

\* an Update onto the front of the other persisted note has just been refused
C11_Witness ==
    /\ last.op = "update"
    /\ last.err = "IntegrityError"
    /\ Cardinality(db.notes) = 2

\* C12: FetchByFront returns absent, without raising, both for an empty
\* front and for a front no persisted note has.
C12_FetchByFrontAbsent ==
    \A front_side \in Fronts :
        (front_side = "" \/ ~ FrontPersisted(db, front_side))
        => LET r == get_note_by_fields(db, front_side)
           IN r.err = "none" /\ ~ r.ret.present

\* C13: for every persisted note id and label set S, AddLabels(id, S)
\* completes without error, and a second call leaves the note's associations
\* as the first call left them.
C13_AddLabelsIdempotent ==
    \A note_id \in NoteIds, add_tag \in StrTags, order \in Orders :
        IsPersisted(db, note_id)
        => LET r1 == add_tag_to_note(db, note_id, add_tag, FALSE, FALSE, order)
               r2 == add_tag_to_note(r1.db, note_id, add_tag, FALSE, FALSE, order)
           IN /\ r1.err = "none"
              /\ r2.err = "none"
              /\ {nt \in r2.db.note_tags : nt.note_id = note_id}
                     = {nt \in r1.db.note_tags : nt.note_id = note_id}

\* notes with an empty front or an empty back
EmptyFieldNotes ==
    {Note(f, b, t) : f \in Fronts \cup {""}, b \in Backs \cup {""}, t \in StrTags}
        \ {Note(f, b, t) : f \in Fronts \ {""}, b \in Backs \ {""}, t \in StrTags}

\* C17: Insert and Update with an empty front or an empty back are rejected
\* with an error before any write: no row is created or changed.
C17_EmptyFieldRejected ==
    \A note \in EmptyFieldNotes, order \in Orders :
        /\ LET r == insert_note(db, note, order)
           IN r.err # "none" /\ Persisted(r.db) = Persisted(db)
        /\ \A note_id \in NoteIds :
               LET r == update_note(db, note_id, note, order)
               IN r.err # "none" /\ Persisted(r.db) = Persisted(db)

\* C18: Insert returns to its caller: a non-zero id exactly when the note
\* was persisted, and 0, with nothing persisted, when a step failed.
C18_InsertReturnsIdOrZero ==
    \A note \in InputNotes, order \in Orders :
        LET r == insert_note(db, note, order)
        IN /\ r.err = "none"
           /\ r.ret # 0 <=> (IsPersisted(r.db, r.ret) /\ ~ IsPersisted(db, r.ret))
           /\ r.ret = 0 => Persisted(r.db) = Persisted(db)

\* C19: Delete(id) on an id with no persisted note (0 and a deleted id
\* included) does not raise and leaves the three tables unchanged.
C19_DeleteOfMissingIsNoOp ==
    \A note_id \in NoteIds :
        ~ IsPersisted(db, note_id)
        => LET r == delete_note_by_id(db, note_id)
           IN r.err = "none" /\ Persisted(r.db) = Persisted(db)

\* a Delete of an id that was assigned once and is gone has just returned,
\* while another note and its associations are persisted
C19_Witness ==
    /\ last.op = "delete"
    /\ last.err = "none"
    /\ ~ last.ret.present
    /\ last.note_id \in 1..db.sqlite_sequence.notes
    /\ db.note_tags # {}

\* C14: at most one association row for each (note, label) pair: no two rows
\* of note_tags link the same note to the same label, and no two rows of
\* taglets hold the same name.
C14_OneAssociationPerPair ==
    /\ \A a, b \in db.note_tags :
           (a.note_id = b.note_id /\ a.taglet_id = b.taglet_id) => a = b
    /\ \A t1, t2 \in db.taglets : t1.taglet_name = t2.taglet_name => t1 = t2

\* AddLabels has just committed on a note that is linked to A only, and
\* AddLabels(id, {A}) on it commits again without creating a row
C14_Witness ==
    /\ last.op = "add_tag"
    /\ last.err = "ProgrammingError"
    /\ JoinedNames(db, last.note_id) = {"A"}
    /\ \A order \in Orders :
           LET r == add_tag_to_note(db, last.note_id, Tag({Str("A")}),
                                    FALSE, FALSE, order)
           IN r.err = "ProgrammingError" /\ r.db = db

\* connection c is open after the first i events of the log
IsOpen(l, c, i) ==
    \E j \in 1..i :
        /\ l[j] = Ev("connect", c)
        /\ ~ \E k \in (j + 1)..i : l[k] = Ev("close", c)

\* no connection is opened while an earlier one is open
OneAtATime(l) ==
    \A i \in 1..Len(l) :
        l[i][1] = "connect" => ~ \E c \in 1..3 : IsOpen(l, c, i - 1)

\* every connection opened is closed at the end
AllClosed(l) == \A c \in 1..3 : ~ IsOpen(l, c, Len(l))

\* the connection events of every call of an operation on the store as it is
CallLogs ==
    {insert_note_log(db, note, order) : note \in InputNotes, order \in Orders}
    \cup {get_note_by_id_log(note_id, 0, 1) : note_id \in NoteIds}
    \cup {get_note_by_fields_log(db, front_side) : front_side \in Fronts}
    \cup {delete_note_by_id_log(db, note_id) : note_id \in NoteIds}
    \cup {delete_unused_taglets_log(db)}
    \cup UNION {{update_note_log(db, note_id, note, order),
                 add_tag_to_note_log(db, note_id, note.tag, FALSE, order, 1),
                 remove_tag_from_note_log(db, note_id, note.tag, FALSE, order, 1)} :
                   <<note_id, note, order>> \in NoteIds \X InputNotes \X Orders}

\* C15: an operation never opens a connection while a connection it opened
\* before is still open.
C15_OneConnectionAtATime == \A l \in CallLogs : OneAtATime(l)

\* C16: on every exit path of every operation, every connection the
\* operation opened is closed when it returns, and an operation that raised
\* leaves none of its writes in the three tables.
C16_ScopedTransaction ==
    /\ \A l \in CallLogs : AllClosed(l)
    /\ \A note \in InputNotes, order \in Orders :
           LET r == insert_note(db, note, order)
           IN r.err # "none" => Persisted(r.db) = Persisted(db)
    /\ \A note_id \in NoteIds :
           LET r == delete_note_by_id(db, note_id)
           IN r.err # "none" => Persisted(r.db) = Persisted(db)
    /\ LET r == delete_unused_taglets(db)
       IN r.err # "none" => Persisted(r.db) = Persisted(db)
    /\ \A note_id \in NoteIds, replacement \in InputNotes, order \in Orders :
           LET r == update_note(db, note_id, replacement, order)
           IN r.err # "none" => Persisted(r.db) = Persisted(db)
    /\ \A note_id \in NoteIds, tag \in StrTags, order \in Orders :
           /\ LET r == remove_tag_from_note(db, note_id, tag, FALSE, order)
              IN r.err # "none" => Persisted(r.db) = Persisted(db)
           /\ LET r == add_tag_to_note(db, note_id, tag, FALSE, FALSE, order)
              IN r.err # "none" => Persisted(r.db) = Persisted(db)

\* C20: c = Union(a, b) holds exactly the labels of a and of b, a and b hold
\* the labels they held before the call, and a later change of c (c += d)
\* leaves a as it was.
C20_UnionDoesNotMutate ==
    \A a, b \in 1..Len(heap) :
        LET r == Tag_add(heap, a, b)
            c == r.ret
        IN /\ r.heap[c] = heap[a] \cup heap[b]
           /\ r.heap[a] = heap[a]
           /\ r.heap[b] = heap[b]
           /\ \A d \in 1..Len(heap) :
                  Tag_iadd(r.heap, c, d).heap[a] = heap[a]

\* C23: no operation asks a connection for a cursor (or runs a statement on
\* it) after that connection was closed.
C23_NoUseAfterClose ==
    \A l \in CallLogs :
        \A i \in 1..Len(l) :
            l[i][1] = "cursor" => IsOpen(l, l[i][2], i - 1)

\* the association rows of a note, and the label names of a set of rows
RowsOf(d, note_id) == {nt \in d.note_tags : nt.note_id = note_id}
NamesOf(d, rows) ==
    {Str(t.taglet_name) : t \in {t \in d.taglets :
                                    \E nt \in rows : nt.taglet_id = t.taglet_id}}

\* C22: Update of a persisted note (with a front no other note has) creates
\* associations exactly for the labels of replacement minus original,
\* deletes associations exactly for the labels of original minus
\* replacement, leaves the rows of the labels in both untouched, deletes no
\* label row and changes no association of another note.
C22_UpdateAppliesDelta ==
    \A note_id \in NoteIds, replacement \in InputNotes, order \in Orders :
        (/\ IsPersisted(db, note_id)
         /\ ~ \E n \in db.notes : /\ n.note_id # note_id
                                  /\ n.front_side = replacement.front_side)
        => LET original == get_note_by_id(db, note_id)
               r == update_note(db, note_id, replacement, order)
               before == RowsOf(db, note_id)
               after == RowsOf(r.db, note_id)
           IN /\ NamesOf(r.db, after \ before)
                     = TagSub(replacement.tag, original.tag)
              /\ NamesOf(db, before \ after)
                     = TagSub(original.tag, replacement.tag)
              /\ db.taglets \subseteq r.db.taglets
              /\ r.db.note_tags \ after = db.note_tags \ before

\* the taglet names of a set or sequence of taglets rows
NamesOfRows(rows) == {t.taglet_name : t \in rows}
SelectedRows(result) == {result[i] : i \in 1..Len(result)}

\* C21: when delete_unused_taglets runs interleaved with an insert_note or
\* add_tag_to_note on another connection, no taglet it deletes has an
\* association at the moment of the DELETE, and the names it reports (the
\* rows of its SELECT) are the names of the taglets it deleted.
C21_CollectConcurrentWithInsert ==
    gc.pc = "deleted"
    => /\ \A t \in gc.deleted :
              ~ \E nt \in db.note_tags : nt.taglet_id = t.taglet_id
       /\ NamesOfRows(SelectedRows(gc.result)) = NamesOfRows(gc.deleted)

====
